---- MODULE Spec2Model ----
(***************************************************************************)
(* Model of add-brake.py: the manifest reconciler (_ensure_brake) and the  *)
(* record migrator (convert) that appends the records of a source Donkeycar*)
(* dataset to a destination dataset.                                       *)
(*                                                                         *)
(* JSON values are modelled as strings ("0.3", "1.0", "null", a file name);*)
(* a JSON object is a function from its keys to values; a Python list is a *)
(* sequence, addressed 0-based by the operators below as in the code.      *)
(***************************************************************************)
EXTENDS Integers, Sequences, FiniteSets, TLC

VARIABLES dstInputs, dstTypes, dstCatMeta, srcSegs, pc, ret, prevRet, calls,
          mwrites, tub, written, closes, cat, ln, origInputs, origTypes

vars == <<dstInputs, dstTypes, dstCatMeta, srcSegs, pc, ret, prevRet, calls,
          mwrites, tub, written, closes, cat, ln, origInputs, origTypes>>

\* ---------------------------------------------------------------- bounds
MaxFields == 3
MaxSegs == 2
MaxRecords == 2
MaxCalls == 3

\* ------------------------------------------------------------ vocabulary
Brake == "user/brake"
Throttle == "user/throttle"
Angle == "user/angle"
ImageKey == "cam/image_array"
Mode == "user/mode"

FloatType == "float"
DefaultBrake == "1.0"
DocstringBrake == "0.0"
DefaultMaxLen == 1000
Null == "null"

FieldNames == {Angle, Throttle, Brake, ImageKey}

\* type tag the datastore declares for a field
TypeOf(name) == IF name = ImageKey THEN "image_array" ELSE FloatType

\* the src/images directory: file name -> decoded content; "gone.jpg" is
\* referenced by records but does not exist, "bad.jpg" exists but is not an
\* image
ImagesDir == ("a.jpg" :> "pixels_a") @@ ("bad.jpg" :> "undecodable")

\* the lines a catalog segment can hold: json says whether json.loads accepts
\* the line, obj is the object it parses to
LBad == [json |-> FALSE, obj |-> ("raw" :> "{not json")]
LNoBrake == [json |-> TRUE,
             obj |-> (Angle :> "0.1") @@ (Throttle :> "0.5")
                     @@ (ImageKey :> "a.jpg") @@ (Mode :> "user")]
LBrake == [json |-> TRUE,
           obj |-> (Angle :> "0.1") @@ (Brake :> "0.3") @@ (ImageKey :> "a.jpg")]
LNoImage == [json |-> TRUE,
             obj |-> (Throttle :> "0.5") @@ (Brake :> "0.0")]
LGone == [json |-> TRUE,
          obj |-> (Angle :> "0.1") @@ (Throttle :> "0.5") @@ (ImageKey :> "gone.jpg")]
LCorrupt == [json |-> TRUE,
             obj |-> (Throttle :> "0.5") @@ (Brake :> "0.3") @@ (ImageKey :> "bad.jpg")]

Lines == {LBad, LNoBrake, LBrake, LNoImage, LGone, LCorrupt}

\* ------------------------------------------------------- Python helpers
SeqsUpTo(S, n) == UNION {[1..k -> S] : k \in 0..n}

Range(s) == {s[i] : i \in 1..Len(s)}

Contains(s, x) == \E i \in 1..Len(s) : s[i] = x

\* list.index(x): 0-based position of the first occurrence
IndexOf(s, x) ==
    CHOOSE i \in 0..(Len(s) - 1) :
        /\ s[i + 1] = x
        /\ \A j \in 0..(i - 1) : s[j + 1] # x

Min(a, b) == IF a < b THEN a ELSE b

\* list.insert(idx, x) for idx >= 0: positions past the end append
InsertAt(s, idx, x) ==
    LET i == Min(idx, Len(s))
    IN  SubSeq(s, 1, i) \o <<x>> \o SubSeq(s, i + 1, Len(s))

\* dict.get(key, default)
Get(d, key, default) == IF key \in DOMAIN d THEN d[key] ELSE default

\* ------------------------------------------------------- _ensure_brake
\* mutant: the presence test is dropped, every call inserts
NeedsBrakeAlways(inp) == TRUE

NeedsBrake(inp) == ~Contains(inp, Brake)

\* mutant: the "+ 1" is lost, the field lands before the throttle
BrakeIdxBefore(inp) ==
    IF Contains(inp, Throttle) THEN IndexOf(inp, Throttle) ELSE Len(inp)

\* mutant: the fallback position is the front of the list
BrakeIdxFront(inp) ==
    IF Contains(inp, Throttle) THEN IndexOf(inp, Throttle) + 1 ELSE 0

BrakeIdx(inp) ==
    IF Contains(inp, Throttle) THEN IndexOf(inp, Throttle) + 1 ELSE Len(inp)

EnsuredInputs(inp) ==
    IF NeedsBrake(inp) THEN InsertAt(inp, BrakeIdx(inp), Brake) ELSE inp

\* mutant: the type tag is appended instead of inserted at idx
EnsuredTypesAppend(inp, typ) ==
    IF NeedsBrake(inp) THEN Append(typ, FloatType) ELSE typ

EnsuredTypes(inp, typ) ==
    IF NeedsBrake(inp) THEN InsertAt(typ, BrakeIdx(inp), FloatType) ELSE typ

MaxLenOf(meta) == Get(meta, "max_len", DefaultMaxLen)

\* one call of _ensure_brake on the destination manifest
EnsureBrakeCall ==
    /\ dstInputs' = EnsuredInputs(dstInputs)
    /\ dstTypes' = EnsuredTypes(dstInputs, dstTypes)
    /\ mwrites' = IF NeedsBrake(dstInputs) THEN mwrites + 1 ELSE mwrites
    /\ ret' = [inputs |-> EnsuredInputs(dstInputs),
               types |-> EnsuredTypes(dstInputs, dstTypes),
               max_len |-> MaxLenOf(dstCatMeta)]
    /\ prevRet' = ret
    /\ calls' = calls + 1
    /\ UNCHANGED dstCatMeta

\* ------------------------------------------------------------- convert
\* mutant: plain assignment instead of setdefault
SetBrakeAlways(rec) ==
    [key \in DOMAIN rec \cup {Brake} |-> IF key = Brake THEN DefaultBrake ELSE rec[key]]

SetDefaultBrake(rec) ==
    IF Brake \in DOMAIN rec THEN rec ELSE rec @@ (Brake :> DefaultBrake)

\* does building the output field `key` from rec raise?
FieldFails(rec, key) ==
    IF key # ImageKey THEN FALSE                       \* rec.get never raises
    ELSE IF key \notin DOMAIN rec THEN TRUE            \* rec[key]: KeyError
    ELSE IF rec[key] \notin DOMAIN ImagesDir THEN TRUE \* Image.open: no file
    ELSE ImagesDir[rec[key]] = "undecodable"           \* Image.open: no image

FieldValue(rec, key) ==
    IF key = ImageKey THEN ImagesDir[rec[key]] ELSE Get(rec, key, Null)

LineFails(line, inp) ==
    IF line.json
    THEN \E i \in 1..Len(inp) : FieldFails(SetDefaultBrake(line.obj), inp[i])
    ELSE TRUE

\* mutant: the record is built over the source record's keys
BuildDataFromRec(line, inp) ==
    LET rec == SetDefaultBrake(line.obj)
    IN  [key \in DOMAIN rec |-> FieldValue(rec, key)]

BuildData(line, inp) ==
    LET rec == SetDefaultBrake(line.obj)
    IN  [key \in Range(inp) |-> FieldValue(rec, key)]

\* mutant: the last line of a segment is not read
SegmentDoneEarly(c, l) == l >= Len(srcSegs[c])

SegmentDone(c, l) == l > Len(srcSegs[c])

EnsureBrake ==
    /\ pc = "start"
    /\ EnsureBrakeCall
    /\ pc' = "ensured"
    /\ UNCHANGED <<srcSegs, tub, written, closes, cat, ln, origInputs, origTypes>>

\* mutant: the writer is constructed before the manifest is reconciled
ConstructTubFirst ==
    /\ pc \in {"start", "ensured"}
    /\ tub' = "open"
    /\ pc' = IF pc = "ensured" THEN "tub" ELSE pc
    /\ UNCHANGED <<dstInputs, dstTypes, dstCatMeta, srcSegs, ret, prevRet, calls,
                   mwrites, written, closes, cat, ln, origInputs, origTypes>>

ConstructTub ==
    /\ pc = "ensured"
    /\ tub' = "open"
    /\ pc' = "tub"
    /\ UNCHANGED <<dstInputs, dstTypes, dstCatMeta, srcSegs, ret, prevRet, calls,
                   mwrites, written, closes, cat, ln, origInputs, origTypes>>

LoadSrcManifest ==
    /\ pc = "tub"
    /\ cat' = 1
    /\ ln' = 1
    /\ pc' = "loop"
    /\ UNCHANGED <<dstInputs, dstTypes, dstCatMeta, srcSegs, ret, prevRet, calls,
                   mwrites, tub, written, closes, origInputs, origTypes>>

WriteRecord ==
    /\ pc = "loop"
    /\ cat <= Len(srcSegs)
    /\ ~SegmentDone(cat, ln)
    /\ ~LineFails(srcSegs[cat][ln], ret.inputs)
    /\ written' = Append(written, BuildData(srcSegs[cat][ln], ret.inputs))
    /\ ln' = ln + 1
    /\ UNCHANGED <<dstInputs, dstTypes, dstCatMeta, srcSegs, pc, ret, prevRet,
                   calls, mwrites, tub, closes, cat, origInputs, origTypes>>

\* mutant: a failing record is skipped and the loop goes on
AbortSkip ==
    /\ pc = "loop"
    /\ cat <= Len(srcSegs)
    /\ ~SegmentDone(cat, ln)
    /\ LineFails(srcSegs[cat][ln], ret.inputs)
    /\ ln' = ln + 1
    /\ UNCHANGED <<dstInputs, dstTypes, dstCatMeta, srcSegs, pc, ret, prevRet,
                   calls, mwrites, tub, written, closes, cat, origInputs, origTypes>>

Abort ==
    /\ pc = "loop"
    /\ cat <= Len(srcSegs)
    /\ ~SegmentDone(cat, ln)
    /\ LineFails(srcSegs[cat][ln], ret.inputs)
    /\ pc' = "failed"
    /\ UNCHANGED <<dstInputs, dstTypes, dstCatMeta, srcSegs, ret, prevRet, calls,
                   mwrites, tub, written, closes, cat, ln, origInputs, origTypes>>

NextSegment ==
    /\ pc = "loop"
    /\ cat <= Len(srcSegs)
    /\ SegmentDone(cat, ln)
    /\ cat' = cat + 1
    /\ ln' = 1
    /\ UNCHANGED <<dstInputs, dstTypes, dstCatMeta, srcSegs, pc, ret, prevRet,
                   calls, mwrites, tub, written, closes, origInputs, origTypes>>

Close ==
    /\ pc = "loop"
    /\ cat > Len(srcSegs)
    /\ tub' = "closed"
    /\ closes' = closes + 1
    /\ pc' = "done"
    /\ UNCHANGED <<dstInputs, dstTypes, dstCatMeta, srcSegs, ret, prevRet, calls,
                   mwrites, written, cat, ln, origInputs, origTypes>>

\* ---------------------------------------------------------------- Init
TypeTags == {FloatType, "image_array", "str"}

\* a declared field: its name and its type tag; user/brake, where a manifest
\* declares it, is declared "float"
FieldDescs ==
    {d \in [name : FieldNames, type : TypeTags] : d.name = Brake => d.type = FloatType}

\* manifests handed to _ensure_brake: any list of declared fields
Manifests == SeqsUpTo(FieldDescs, MaxFields)

\* destination manifests of a run of convert: distinct field names with the
\* type tags the datastore gives them
DstManifests ==
    {[i \in 1..Len(inp) |-> [name |-> inp[i], type |-> TypeOf(inp[i])]] :
        inp \in {x \in SeqsUpTo(FieldNames, MaxFields) :
                    \A i, j \in 1..Len(x) : x[i] = x[j] => i = j}}

CatMetas == {[k \in {} |-> 0], [k \in {"max_len"} |-> 500]}

RECURSIVE Sum(_)
Sum(lens) == IF lens = <<>> THEN 0 ELSE Head(lens) + Sum(Tail(lens))

\* the lines flat cut into consecutive segments of the lengths lens
Split(flat, lens) ==
    [c \in 1..Len(lens) |->
        SubSeq(flat, Sum(SubSeq(lens, 1, c - 1)) + 1, Sum(SubSeq(lens, 1, c)))]

\* source datasets: up to MaxSegs catalog segments holding up to MaxRecords
\* lines in total
Datasets ==
    {Split(fl[1], fl[2]) :
        fl \in {x \in SeqsUpTo(Lines, MaxRecords) \X SeqsUpTo(0..MaxRecords, MaxSegs) :
                   Sum(x[2]) = Len(x[1])}}

\* state before the first statement runs, for manifest m
Start(m) ==
    /\ dstInputs = [i \in 1..Len(m) |-> m[i].name]
    /\ dstTypes = [i \in 1..Len(m) |-> m[i].type]
    /\ pc = "start"
    /\ ret = [inputs |-> <<>>, types |-> <<>>, max_len |-> 0]
    /\ prevRet = ret
    /\ calls = 0
    /\ mwrites = 0
    /\ tub = "none"
    /\ written = <<>>
    /\ closes = 0
    /\ cat = 0
    /\ ln = 0
    /\ origInputs = dstInputs
    /\ origTypes = dstTypes

Init ==
    /\ srcSegs \in Datasets
    /\ dstCatMeta \in CatMetas
    /\ \E m \in DstManifests : Start(m)

Next ==
    \/ EnsureBrake
    \/ ConstructTub
    \/ LoadSrcManifest
    \/ WriteRecord
    \/ Abort
    \/ NextSegment
    \/ Close

Spec == Init /\ [][Next]_vars

\* _ensure_brake applied repeatedly to the same manifest file
Reconcile ==
    /\ pc = "start"
    /\ calls < MaxCalls
    /\ EnsureBrakeCall
    /\ UNCHANGED <<srcSegs, pc, tub, written, closes, cat, ln, origInputs, origTypes>>

InitEnsure ==
    /\ dstCatMeta \in CatMetas
    /\ srcSegs = <<>>
    /\ \E m \in Manifests : Start(m)

NextEnsure == Reconcile

SpecEnsure == InitEnsure /\ [][NextEnsure]_vars

\* ------------------------------------------------------ claim helpers
\* the source lines in the order the catalog list and the files give them
RECURSIVE Flat(_)
Flat(segs) == IF segs = <<>> THEN <<>> ELSE Head(segs) \o Flat(Tail(segs))

RemoveAt(s, k) == SubSeq(s, 1, k - 1) \o SubSeq(s, k + 1, Len(s))

\* position (1-based) of the first user/throttle of the original manifest
FirstThrottle(k) ==
    /\ origInputs[k] = Throttle
    /\ \A j \in 1..(k - 1) : origInputs[j] # Throttle

\* s with x put right after its k-th element
PutAfter(s, k, x) == SubSeq(s, 1, k) \o <<x>> \o SubSeq(s, k + 1, Len(s))

\* a record of the kinds that make its processing fail for field list inp
BadRecord(line, inp) ==
    \/ ~line.json
    \/ /\ line.json
       /\ ImageKey \in Range(inp)
       /\ \/ ImageKey \notin DOMAIN line.obj
          \/ /\ ImageKey \in DOMAIN line.obj
             /\ line.obj[ImageKey] \in {"gone.jpg", "bad.jpg"}

\* ---------------------------------------------------------------- C1
\* C1: a manifest without user/brake but with user/throttle has, after
\* _ensure_brake, user/brake right after the first user/throttle and "float"
\* at the same index of the type list, everything else in its old order.
C1_InsertAfterThrottle ==
    (calls = 1 /\ ~Contains(origInputs, Brake) /\ Contains(origInputs, Throttle)) =>
        \E k \in 1..Len(origInputs) :
            /\ FirstThrottle(k)
            /\ dstInputs = PutAfter(origInputs, k, Brake)
            /\ dstTypes = PutAfter(origTypes, k, FloatType)
            /\ ret.inputs = dstInputs
            /\ ret.types = dstTypes

C1_Witness ==
    /\ calls = 1
    /\ origInputs = <<Angle, Throttle, ImageKey>>
    /\ dstInputs = <<Angle, Throttle, Brake, ImageKey>>
    /\ dstTypes = <<"float", "float", "float", "image_array">>

\* ---------------------------------------------------------------- C2
\* C2: a manifest with neither user/brake nor user/throttle gets user/brake
\* and "float" appended at the end, the earlier elements unchanged.
C2_AppendFallback ==
    (calls = 1 /\ ~Contains(origInputs, Brake) /\ ~Contains(origInputs, Throttle)) =>
        /\ dstInputs = Append(origInputs, Brake)
        /\ dstTypes = Append(origTypes, FloatType)
        /\ ret.inputs = dstInputs
        /\ ret.types = dstTypes

C2_Witness ==
    /\ calls = 1
    /\ origInputs = <<ImageKey, Angle>>
    /\ dstInputs = <<ImageKey, Angle, Brake>>
    /\ dstTypes = <<"image_array", "float", "float">>

\* ---------------------------------------------------------------- C3
\* C3: a call of _ensure_brake that follows an earlier call on the same
\* manifest inserts nothing, does not write the file and returns what the
\* earlier call returned.
C3_Idempotent ==
    [][calls >= 1 =>
          /\ dstInputs' = dstInputs
          /\ dstTypes' = dstTypes
          /\ mwrites' = mwrites
          /\ ret' = ret]_vars

C3_Witness ==
    /\ calls = 2
    /\ mwrites = 1
    /\ ~Contains(origInputs, Brake)
    /\ ret = prevRet
    /\ ret.inputs = dstInputs

C6_OnePerLine ==
    /\ closes <= 1
    /\ (closes = 1) <=> (pc = "done")
    /\ pc = "done" =>
        /\ tub = "closed"
        /\ Len(written) = Len(Flat(srcSegs))
        /\ \A i \in 1..Len(written) :
               LET obj == Flat(srcSegs)[i].obj
               IN  \A key \in (DOMAIN written[i] \cap DOMAIN obj) \ {ImageKey} :
                       written[i][key] = obj[key]

C6_Witness ==
    /\ pc = "done"
    /\ closes = 1
    /\ srcSegs = <<<<LNoImage>>, <<LBrake>>>>
    /\ Len(written) = 2
    /\ written[1][Brake] = "0.0"
    /\ written[2][Brake] = "0.3"

\* ---------------------------------------------------------------- C8
\* C8: the destination manifest is changed at most once, by one insertion,
\* and only before the writer exists and before any record is submitted.
C8_ManifestFirst ==
    /\ [](mwrites <= 1 /\ Len(dstInputs) <= Len(origInputs) + 1)
    /\ [][(mwrites' # mwrites \/ dstInputs' # dstInputs \/ dstTypes' # dstTypes) =>
             (tub = "none" /\ tub' = "none" /\ written = <<>> /\ mwrites = 0)]_vars

C8_Witness ==
    /\ pc = "done"
    /\ mwrites = 1
    /\ Len(written) = 2
    /\ Len(dstInputs) = Len(origInputs) + 1

\* ---------------------------------------------------------------- C9
\* C9: when the k-th source record fails the run stops there: the k-1
\* records before it were submitted, that record and the later ones never
\* are, and the writer is not used again, not even closed.
C9_AbortOnFailure ==
    /\ \A i \in 1..Len(written) : ~BadRecord(Flat(srcSegs)[i], dstInputs)
    /\ pc = "done" =>
           \A i \in 1..Len(Flat(srcSegs)) : ~BadRecord(Flat(srcSegs)[i], dstInputs)
    /\ pc = "failed" =>
        /\ Len(written) < Len(Flat(srcSegs))
        /\ BadRecord(Flat(srcSegs)[Len(written) + 1], dstInputs)
        /\ closes = 0
        /\ tub = "open"

C9_Witness ==
    /\ pc = "failed"
    /\ Flat(srcSegs) = <<LNoBrake, LGone>>
    /\ Len(written) = 1
    /\ closes = 0

\* --------------------------------------------------------------- C10
\* C10: (module docstring) a source record without user/brake is appended
\* with user/brake 0.0.
C10_DocstringFill ==
    \A i \in 1..Len(written) :
        Brake \notin DOMAIN Flat(srcSegs)[i].obj => written[i][Brake] = DocstringBrake

====
